---- MODULE Spec2Model ----
(***************************************************************************)
(* frozen-hashbrown: capture of a std HashMap's backing allocation into a  *)
(* FrozenHashMap, store/load of the blob, reconstruct (pointer patching)   *)
(* and the raw bucket iterator.                                            *)
(*                                                                         *)
(* usize is 64 bits wide (lib.rs refuses any other pointer width).  A      *)
(* usize value is kept as its eight base-256 digits, least significant     *)
(* first, so that checked_mul / checked_add overflow exactly where the     *)
(* machine word does.  Lengths of buffers that exist in the model are      *)
(* ordinary naturals and are converted with U.                             *)
(***************************************************************************)
EXTENDS Integers, Sequences, FiniteSets, TLC

\* ------------------------------------------------------------------ usize

\* bytes of a usize: the length prefix chunk of load, and every usize field
WordBytes == 8

Digits == 1..WordBytes

\* the usize whose value is the natural n (n < 2^31)
U(n) == [i \in Digits |-> IF i <= 4 THEN (n \div (256 ^ (i - 1))) % 256 ELSE 0]

\* a usize small enough to be used as a natural of the model
IsSmall(u) == u[4] < 128 /\ \A i \in 5..WordBytes : u[i] = 0

Val(u) == u[1] + 256 * u[2] + 65536 * u[3] + 16777216 * u[4]

UMAX == [i \in Digits |-> 255]

\* 2^k as a usize, 0 <= k <= 63
Pow2(k) == [i \in Digits |-> IF i = (k \div 8) + 1 THEN 2 ^ (k % 8) ELSE 0]

\* isize::MAX = 2^63 - 1
IMAX == [i \in Digits |-> IF i = WordBytes THEN 127 ELSE 255]

RECURSIVE AddDigits(_, _, _, _, _)
AddDigits(a, b, i, carry, acc) ==
    IF i > WordBytes THEN [val |-> acc, overflow |-> carry = 1]
    ELSE LET t == a[i] + b[i] + carry
         IN  AddDigits(a, b, i + 1, t \div 256, Append(acc, t % 256))

\* usize::overflowing_add
OverflowingAdd(a, b) == AddDigits(a, b, 1, 0, <<>>)

RECURSIVE SubDigits(_, _, _, _, _)
SubDigits(a, b, i, borrow, acc) ==
    IF i > WordBytes THEN [val |-> acc, overflow |-> borrow = 1]
    ELSE LET t == a[i] - b[i] - borrow
         IN  IF t < 0 THEN SubDigits(a, b, i + 1, 1, Append(acc, t + 256))
                      ELSE SubDigits(a, b, i + 1, 0, Append(acc, t))

\* usize::overflowing_sub
OverflowingSub(a, b) == SubDigits(a, b, 1, 0, <<>>)

\* column k (1..16) of the schoolbook product: the sum of a[i] * b[j] over
\* i + j = k + 1
RECURSIVE ColumnFrom(_, _, _, _)
ColumnFrom(a, b, k, i) ==
    IF i > WordBytes \/ i > k THEN 0
    ELSE a[i] * b[k + 1 - i] + ColumnFrom(a, b, k, i + 1)

Column(a, b, k) == ColumnFrom(a, b, k, IF k > WordBytes THEN k + 1 - WordBytes ELSE 1)

RECURSIVE MulDigits(_, _, _, _, _)
MulDigits(a, b, k, carry, acc) ==
    IF k > 2 * WordBytes THEN acc
    ELSE LET t == Column(a, b, k) + carry
         IN  MulDigits(a, b, k + 1, t \div 256, Append(acc, t % 256))

\* usize::overflowing_mul: the low word and whether the high word is nonzero
OverflowingMul(a, b) ==
    LET p == MulDigits(a, b, 1, 0, <<>>)
    IN  [val |-> SubSeq(p, 1, WordBytes),
         overflow |-> \E i \in (WordBytes + 1)..(2 * WordBytes) : p[i] # 0]

RECURSIVE AndByte(_, _)
AndByte(x, y) ==
    IF x = 0 \/ y = 0 THEN 0
    ELSE (x % 2) * (y % 2) + 2 * AndByte(x \div 2, y \div 2)

\* a & b
BitAnd(a, b) == [i \in Digits |-> AndByte(a[i], b[i])]

\* !a
BitNot(a) == [i \in Digits |-> 255 - a[i]]

RECURSIVE LtFrom(_, _, _)
LtFrom(a, b, i) ==
    IF i = 0 THEN FALSE
    ELSE IF a[i] # b[i] THEN a[i] < b[i]
    ELSE LtFrom(a, b, i - 1)

\* a < b
Lt(a, b) == LtFrom(a, b, WordBytes)

RECURSIVE PopByte(_)
PopByte(x) == IF x = 0 THEN 0 ELSE (x % 2) + PopByte(x \div 2)

RECURSIVE PopFrom(_, _)
PopFrom(a, i) == IF i > WordBytes THEN 0 ELSE PopByte(a[i]) + PopFrom(a, i + 1)

\* usize::is_power_of_two
IsPowerOfTwo(a) == PopFrom(a, 1) = 1

\* ------------------------------------------------------------------ builds

\* Group::WIDTH of the two cfg branches that differ
WidthSse2 == 16
WidthGeneric == 8

\* The order in which the compiler lays out the fields of the repr(Rust)
\* structs TableLayout and HashMap<RandomState> (RawTable holds the one field
\* RawTableInner).  Every field is one usize/u64 wide, so a layout is a
\* permutation of the field names.
DeclaredLayoutOrder == <<"size", "ctrl_align">>
DeclaredHashMapOrder == <<"k0", "k1", "bucket_mask", "ctrl", "growth_left", "items">>
ReorderedLayoutOrder == <<"ctrl_align", "size">>
ReorderedHashMapOrder == <<"ctrl", "bucket_mask", "growth_left", "items", "k0", "k1">>

\* The builds covered: target (Group::WIDTH, byte order, field order) and
\* profile (overflow-checks; whether the unsafe-precondition checks of the
\* standard library are compiled in).
Builds ==
    { [WIDTH |-> WidthSse2, big_endian |-> FALSE, overflow_checks |-> FALSE,
       ub_checks |-> FALSE, layout_order |-> DeclaredLayoutOrder,
       hashmap_order |-> DeclaredHashMapOrder],
      [WIDTH |-> WidthSse2, big_endian |-> FALSE, overflow_checks |-> TRUE,
       ub_checks |-> TRUE, layout_order |-> DeclaredLayoutOrder,
       hashmap_order |-> DeclaredHashMapOrder],
      [WIDTH |-> WidthGeneric, big_endian |-> TRUE, overflow_checks |-> FALSE,
       ub_checks |-> FALSE, layout_order |-> ReorderedLayoutOrder,
       hashmap_order |-> ReorderedHashMapOrder] }

\* ------------------------------------------------------------------ layout

NoLayout == [kind |-> "None", size |-> U(0), align |-> U(0), ctrl_offset |-> U(0)]
PanicLayout == [kind |-> "panic", size |-> U(0), align |-> U(0), ctrl_offset |-> U(0)]
SomeLayout(len, align, off) ==
    [kind |-> "Some", size |-> len, align |-> align, ctrl_offset |-> off]

\* Layout::from_size_align_unchecked(len, align) is called outside its safety
\* contract when align is no power of two or len, rounded up to align,
\* exceeds isize::MAX.
LayoutPrecondition(len, align) ==
    /\ IsPowerOfTwo(align)
    /\ ~Lt(OverflowingSub(IMAX, OverflowingSub(align, U(1)).val).val, len)

\* The tail of calculate_layout_for, from the checked_add of ctrl_align - 1 on.
\* `b` is the build, `m` is size * buckets, `am1` is ctrl_align - 1.
LayoutFromProduct(b, tl, buckets, m, am1) ==
    LET s == OverflowingAdd(m, am1)
        ctrl_offset == BitAnd(s.val, BitNot(am1))
        bw == OverflowingAdd(buckets, U(b.WIDTH))
        len == OverflowingAdd(ctrl_offset, bw.val)
    IN  IF s.overflow THEN NoLayout
        ELSE IF bw.overflow /\ b.overflow_checks THEN PanicLayout
        ELSE IF len.overflow THEN NoLayout
        ELSE IF ~LayoutPrecondition(len.val, tl.ctrl_align) /\ b.ub_checks
             THEN PanicLayout
        ELSE SomeLayout(len.val, tl.ctrl_align, ctrl_offset)

\* TableLayout::calculate_layout_for
calculate_layout_for(b, tl, buckets) ==
    LET m == OverflowingMul(tl.size, buckets)
        am1 == OverflowingSub(tl.ctrl_align, U(1))
    IN  IF ~IsPowerOfTwo(buckets) THEN PanicLayout
        ELSE IF m.overflow THEN NoLayout
        ELSE IF am1.overflow /\ b.overflow_checks THEN PanicLayout
        ELSE LayoutFromProduct(b, tl, buckets, m.val, am1.val)

\* RawTableInner::buckets: bucket_mask + 1, which overflows for usize::MAX
buckets(b, t) ==
    LET n == OverflowingAdd(t.bucket_mask, U(1))
    IN  [overflow |-> n.overflow /\ b.overflow_checks, val |-> n.val]

\* RawTableInner::is_empty_singleton
is_empty_singleton(t) == t.bucket_mask = U(0)

\* RawTableInner::reallocation: (ctrl_offset, layout), None or a panic
reallocation(b, t, tl) ==
    IF is_empty_singleton(t) THEN NoLayout
    ELSE IF buckets(b, t).overflow THEN PanicLayout
    ELSE calculate_layout_for(b, tl, buckets(b, t).val)

\* RawTableInner::allocation: the layout, with location = ctrl - ctrl_offset
allocation(b, t, tl) ==
    IF is_empty_singleton(t) THEN NoLayout
    ELSE IF buckets(b, t).overflow THEN PanicLayout
    ELSE calculate_layout_for(b, tl, buckets(b, t).val)

\* TableLayout::new for a slot type of the given size and alignment
TableLayoutNew(b, size, align) ==
    [size |-> U(size), ctrl_align |-> IF align > b.WIDTH THEN U(align) ELSE U(b.WIDTH)]

\* ------------------------------------------------------------------ records

\* Vec<u8>: the address of its buffer and its bytes.  An empty Vec owns no
\* buffer and its pointer is the dangling, well-aligned, non-null address.
Vec(ptr, bytes) == [ptr |-> IF bytes = <<>> THEN 1 ELSE ptr, bytes |-> bytes]

\* RawTableInner
RawTableInner(bucket_mask, ctrl, growth_left, items) ==
    [bucket_mask |-> bucket_mask, ctrl |-> ctrl,
     growth_left |-> growth_left, items |-> items]

\* HashMap<RandomState>; RawTable, a wrapper of one field, is left out
HashMap(k0, k1, table) == [hash_builder |-> [k0 |-> k0, k1 |-> k1], table |-> table]

\* FrozenHashMap
FrozenHashMap(table_layout, hashmap, memory) ==
    [table_layout |-> table_layout, hashmap |-> hashmap, memory |-> memory]

ZeroHashMap == HashMap(U(0), U(0), RawTableInner(U(0), U(0), U(0), U(0)))
ZeroFrozen ==
    FrozenHashMap([size |-> U(0), ctrl_align |-> U(0)], ZeroHashMap, Vec(1, <<>>))

\* ------------------------------------------------------------------ bytes

Reverse(s) == [i \in 1..Len(s) |-> s[Len(s) + 1 - i]]

\* usize::to_ne_bytes and usize::from_ne_bytes; the digits of a usize are
\* kept least significant first
to_ne_bytes(b, u) == IF b.big_endian THEN Reverse(u) ELSE u
from_ne_bytes(b, bs) == IF b.big_endian THEN Reverse(bs) ELSE bs

\* the field of a HashMap<RandomState> by name
HashMapField(h, f) ==
    CASE f = "k0" -> h.hash_builder.k0
      [] f = "k1" -> h.hash_builder.k1
      [] f = "bucket_mask" -> h.table.bucket_mask
      [] f = "ctrl" -> h.table.ctrl
      [] f = "growth_left" -> h.table.growth_left
      [] f = "items" -> h.table.items

RECURSIVE Flatten(_)
Flatten(ss) == IF ss = <<>> THEN <<>> ELSE Head(ss) \o Flatten(Tail(ss))

\* the word index (from 0) of field f in a struct laid out in `order`
FieldIndex(order, f) == (CHOOSE i \in 1..Len(order) : order[i] = f) - 1

\* the in-memory bytes of a TableLayout (what the transmute in store reads)
TableLayoutBytes(b, tl) ==
    Flatten([i \in 1..Len(b.layout_order) |-> to_ne_bytes(b, tl[b.layout_order[i]])])

\* the in-memory bytes of a HashMap<RandomState>
HashMapBytes(b, h) ==
    Flatten([i \in 1..Len(b.hashmap_order) |->
                to_ne_bytes(b, HashMapField(h, b.hashmap_order[i]))])

\* word w (from 0) of a byte string, as a usize
WordAt(b, bytes, w) ==
    from_ne_bytes(b, SubSeq(bytes, w * WordBytes + 1, (w + 1) * WordBytes))

\* ptr::read_unaligned of a TableLayout
TableLayoutFromBytes(b, bytes) ==
    [size |-> WordAt(b, bytes, FieldIndex(b.layout_order, "size")),
     ctrl_align |-> WordAt(b, bytes, FieldIndex(b.layout_order, "ctrl_align"))]

\* ptr::read_unaligned of a HashMap<RandomState>
HashMapFromBytes(b, bytes) ==
    LET F(f) == WordAt(b, bytes, FieldIndex(b.hashmap_order, f))
    IN  HashMap(F("k0"), F("k1"),
                RawTableInner(F("bucket_mask"), F("ctrl"), F("growth_left"), F("items")))

\* size_of::<TableLayout>() and size_of::<HashMap<RandomState>>()
SizeOfTableLayout == Len(DeclaredLayoutOrder) * WordBytes
SizeOfHashMap == Len(DeclaredHashMapOrder) * WordBytes

\* ------------------------------------------------------------------ codec

\* store without the length prefix in front of the memory
store_without_length(b, self) ==
    TableLayoutBytes(b, self.table_layout)
        \o HashMapBytes(b, self.hashmap)
        \o self.memory.bytes

\* FrozenHashMap::store
store(b, self) ==
    TableLayoutBytes(b, self.table_layout)
        \o HashMapBytes(b, self.hashmap)
        \o to_ne_bytes(b, U(Len(self.memory.bytes)))
        \o self.memory.bytes

LoadNone == [kind |-> "None", val |-> ZeroFrozen]
LoadPanic == [kind |-> "panic", val |-> ZeroFrozen]

\* load that accepts whenever the buffer ends at or before the prefixed length
LoadBody_at_most(b, bytes, ptr, cursor) ==
    LET chunk == WordBytes
        length == from_ne_bytes(b, SubSeq(bytes, cursor + 1, cursor + chunk))
        sum == OverflowingAdd(U(cursor + chunk), length)
    IN  IF cursor + chunk > Len(bytes) THEN LoadNone
        ELSE IF sum.overflow /\ b.overflow_checks THEN LoadPanic
        ELSE IF Lt(sum.val, U(Len(bytes))) THEN LoadNone
        ELSE [kind |-> "Some",
              val |-> FrozenHashMap(
                  TableLayoutFromBytes(b, SubSeq(bytes, 1, SizeOfTableLayout)),
                  HashMapFromBytes(b, SubSeq(bytes, SizeOfTableLayout + 1,
                                             SizeOfTableLayout + SizeOfHashMap)),
                  Vec(ptr, SubSeq(bytes, cursor + chunk + 1, Len(bytes))))]

\* The tail of load, from the length prefix on; cursor is past the two structs.
LoadBody(b, bytes, ptr, cursor) ==
    LET chunk == WordBytes
        length == from_ne_bytes(b, SubSeq(bytes, cursor + 1, cursor + chunk))
        sum == OverflowingAdd(U(cursor + chunk), length)
    IN  IF cursor + chunk > Len(bytes) THEN LoadNone
        ELSE IF sum.overflow /\ b.overflow_checks THEN LoadPanic
        ELSE IF sum.val # U(Len(bytes)) THEN LoadNone
        ELSE [kind |-> "Some",
              val |-> FrozenHashMap(
                  TableLayoutFromBytes(b, SubSeq(bytes, 1, SizeOfTableLayout)),
                  HashMapFromBytes(b, SubSeq(bytes, SizeOfTableLayout + 1,
                                             SizeOfTableLayout + SizeOfHashMap)),
                  Vec(ptr, SubSeq(bytes, cursor + chunk + 1, Len(bytes))))]

\* FrozenHashMap::load; ptr is where the allocator puts the new memory
load(b, bytes, ptr) ==
    IF 0 + SizeOfTableLayout > Len(bytes) THEN LoadNone
    ELSE IF SizeOfTableLayout + SizeOfHashMap > Len(bytes) THEN LoadNone
    ELSE LoadBody(b, bytes, ptr, SizeOfTableLayout + SizeOfHashMap)

\* ------------------------------------------------------------------ capture

\* the bit of a control byte that is 0 for a full bucket
FullMask == 128

\* the std HashMap's allocation: [base, bytes, live]; reading `size` bytes at
\* `location` is defined only inside the live allocation
InAllocation(heap, location, size) ==
    LET end == OverflowingAdd(location, size)
    IN  /\ heap.live
        /\ ~end.overflow
        /\ ~Lt(location, U(heap.base))
        /\ ~Lt(U(heap.base + Len(heap.bytes)), end.val)

\* core::slice::from_raw_parts(location, size).to_vec()
ReadAllocation(heap, location, size) ==
    SubSeq(heap.bytes, Val(location) - heap.base + 1,
           Val(location) - heap.base + Val(size))

\* FrozenHashMap::construct_with; ptr is where the allocator puts the copy.
\* "undefined": the slice read leaves the table's live allocation.
construct_with(b, hashmap, table_layout, heap, ptr) ==
    LET h == HashMapFromBytes(b, hashmap)
        a == allocation(b, h.table, table_layout)
        location == OverflowingSub(h.table.ctrl, a.ctrl_offset).val
    IN  IF Len(hashmap) # SizeOfHashMap THEN [kind |-> "panic", val |-> ZeroFrozen]
        ELSE IF a.kind = "panic" THEN [kind |-> "panic", val |-> ZeroFrozen]
        ELSE IF a.kind = "None"
             THEN [kind |-> "Some",
                   val |-> FrozenHashMap(table_layout, h, Vec(ptr, <<>>))]
        ELSE IF ~InAllocation(heap, location, a.size)
             THEN [kind |-> "undefined", val |-> ZeroFrozen]
        ELSE [kind |-> "Some",
              val |-> FrozenHashMap(table_layout, h,
                                    Vec(ptr, ReadAllocation(heap, location, a.size)))]

\* FrozenHashMap::construct: the bytes of the map and TableLayout::new of (K, V)
construct(b, map, heap, ptr) ==
    construct_with(b, HashMapBytes(b, map.hashmap),
                   TableLayoutNew(b, map.slot.size, map.slot.align), heap, ptr)

\* ------------------------------------------------------------------ restore

\* reconstruct that leaves the captured ctrl pointer in place
reconstruct_unpatched(b, self) ==
    LET r == reallocation(b, self.hashmap.table, self.table_layout)
        address == OverflowingAdd(U(self.memory.ptr), r.ctrl_offset).val
    IN  IF self.memory.bytes = <<>> THEN [kind |-> "None", val |-> self]
        ELSE IF r.kind = "panic" THEN [kind |-> "panic", val |-> self]
        ELSE IF r.kind = "None" THEN [kind |-> "None", val |-> self]
        ELSE IF r.size # U(Len(self.memory.bytes)) THEN [kind |-> "panic", val |-> self]
        ELSE IF address = U(0) THEN [kind |-> "None", val |-> self]
        ELSE [kind |-> "Some", val |-> self]

\* FrozenHashMap::reconstruct: the outcome and self afterwards
reconstruct(b, self) ==
    LET r == reallocation(b, self.hashmap.table, self.table_layout)
        address == OverflowingAdd(U(self.memory.ptr), r.ctrl_offset).val
        patched == [self EXCEPT !.hashmap.table.ctrl = address]
    IN  IF self.memory.bytes = <<>> THEN [kind |-> "None", val |-> self]
        ELSE IF r.kind = "panic" THEN [kind |-> "panic", val |-> self]
        ELSE IF r.kind = "None" THEN [kind |-> "None", val |-> self]
        ELSE IF r.size # U(Len(self.memory.bytes)) THEN [kind |-> "panic", val |-> self]
        ELSE IF address = U(0) THEN [kind |-> "None", val |-> self]
        ELSE [kind |-> "Some", val |-> patched]

\* ------------------------------------------------------------------ iterator

\* RawBucketIter; the borrow _memory is the name of the snapshot that owns it
RawBucketIter(owner, base, cur, end, bucket_size, items) ==
    [owner |-> owner, base |-> base, cur |-> cur, end |-> end,
     bucket_size |-> bucket_size, items |-> items]

NoIter == RawBucketIter("none", 0, 0, 0, U(0), U(0))

\* FrozenHashMap::raw_iter
raw_iter(b, owner, self) ==
    LET r == reallocation(b, self.hashmap.table, self.table_layout)
        base == self.memory.ptr + Val(r.ctrl_offset)
    IN  IF r.kind = "panic" THEN [kind |-> "panic", val |-> NoIter]
        ELSE IF r.kind = "None" THEN [kind |-> "None", val |-> NoIter]
        ELSE IF self.memory.bytes = <<>> THEN [kind |-> "None", val |-> NoIter]
        ELSE IF r.size # U(Len(self.memory.bytes)) THEN [kind |-> "None", val |-> NoIter]
        ELSE [kind |-> "Some",
              val |-> RawBucketIter(owner, base, base,
                                    self.memory.ptr + Len(self.memory.bytes),
                                    self.table_layout.size,
                                    self.hashmap.table.items)]

\* *self.cur, a read inside the borrowed memory (base <= cur < end)
Deref(memory, address) == memory.bytes[address - memory.ptr + 1]

\* the loop body with the offset taken before cur is advanced
YieldBucket_before_advance(b, it, cur) ==
    LET offset == OverflowingMul(U(cur - 1 - it.base), it.bucket_size)
        advanced == [it EXCEPT !.cur = cur]
    IN  IF offset.overflow /\ b.overflow_checks
            THEN [kind |-> "panic", addr |-> 0, val |-> advanced]
        ELSE IF Lt(IMAX, offset.val)
            THEN [kind |-> "panic", addr |-> 0, val |-> advanced]
        ELSE IF ~IsSmall(offset.val)
            THEN [kind |-> "undefined", addr |-> 0, val |-> advanced]
        ELSE [kind |-> "Some", addr |-> it.base - Val(offset.val),
              val |-> [advanced EXCEPT !.items = OverflowingSub(it.items, U(1)).val]]

\* the body of the loop of next for a full control byte; cur is already advanced
YieldBucket(b, it, cur) ==
    LET offset == OverflowingMul(U(cur - it.base), it.bucket_size)
        advanced == [it EXCEPT !.cur = cur]
    IN  IF offset.overflow /\ b.overflow_checks
            THEN [kind |-> "panic", addr |-> 0, val |-> advanced]
        ELSE IF Lt(IMAX, offset.val)
            THEN [kind |-> "panic", addr |-> 0, val |-> advanced]
        ELSE IF ~IsSmall(offset.val)
            THEN [kind |-> "undefined", addr |-> 0, val |-> advanced]
        ELSE [kind |-> "Some", addr |-> it.base - Val(offset.val),
              val |-> [advanced EXCEPT !.items = OverflowingSub(it.items, U(1)).val]]

RECURSIVE ScanFrom(_, _, _, _)
ScanFrom(b, it, memory, cur) ==
    IF ~(cur < it.end) THEN [kind |-> "None", addr |-> 0, val |-> [it EXCEPT !.cur = cur]]
    ELSE IF AndByte(Deref(memory, cur), FullMask) = 0 THEN YieldBucket(b, it, cur + 1)
    ELSE ScanFrom(b, it, memory, cur + 1)

\* RawBucketIter::next: the outcome, the address yielded and self afterwards
next(b, it, memory) ==
    IF it.items = U(0) THEN [kind |-> "None", addr |-> 0, val |-> it]
    ELSE ScanFrom(b, it, memory, it.cur)

\* ------------------------------------------------------------------ the std HashMap

\* the bucket counts of the captured tables, and how many of a table's
\* buckets are in use (full or deleted) at most
BucketCounts == {2, 4, 8}
MaxUsed == 2

\* control bytes: EMPTY, DELETED, and a full byte (the 7-bit hash, here 0x7f)
EMPTY == 255
DELETED == 128
FullByte == 127

\* the slot types (K, V) of the captured maps: size and alignment
SlotTypes == { [size |-> 0, align |-> 1], [size |-> 3, align |-> 1],
               [size |-> 4, align |-> 4] }

\* where the allocator puts the table, the two copies, and the static empty
\* group the empty singleton points at
Addresses == [table |-> 4096, frozen |-> 8192, unfrozen |-> 12288, static |-> 512]

\* hashbrown's bucket_mask_to_capacity
Capacity(n) == IF n < 8 THEN n - 1 ELSE (n \div 8) * 7

IsFull(c) == AndByte(c, FullMask) = 0

CountUsed(ctrls) == Cardinality({i \in 1..Len(ctrls) : ctrls[i] # EMPTY})
CountFull(ctrls) == Cardinality({i \in 1..Len(ctrls) : IsFull(ctrls[i])})

\* the control bytes a table of n buckets can hold: no more buckets are in
\* use than its capacity, so at least one stays EMPTY
ControlArrays(n) ==
    {c \in [1..n -> {EMPTY, DELETED, FullByte}] :
        /\ CountUsed(c) <= Capacity(n)
        /\ CountUsed(c) <= MaxUsed}

\* hashbrown's allocation for n buckets of a slot type: the slots in reverse
\* index order, padding first, end at ctrl_offset; then the n control bytes and
\* the Group::WIDTH trailing bytes that mirror the first ones
TableCtrlOffset(b, n, slot) ==
    LET align == IF slot.align > b.WIDTH THEN slot.align ELSE b.WIDTH
    IN  ((slot.size * n + align - 1) \div align) * align

TrailingCtrl(b, n, ctrls, i) ==
    IF n >= b.WIDTH THEN ctrls[i - n + 1]
    ELSE IF i < b.WIDTH THEN EMPTY
    ELSE IF i - b.WIDTH < n THEN ctrls[i - b.WIDTH + 1]
    ELSE EMPTY

\* byte j of the entry in bucket i; an unused bucket holds stale bytes
SlotByte(ctrls, i, j) == IF IsFull(ctrls[i + 1]) THEN 16 * (i + 1) + j ELSE 200 + i

TableBytes(b, n, slot, ctrls) ==
    LET off == TableCtrlOffset(b, n, slot)
        first == off - n * slot.size
    IN  [q \in 1..(off + n + b.WIDTH) |->
            LET p == q - 1
            IN  IF p < first THEN 170
                ELSE IF p < off
                     THEN LET i == n - 1 - ((p - first) \div slot.size)
                          IN  SlotByte(ctrls, i, (p - first) % slot.size)
                ELSE IF p < off + n THEN ctrls[p - off + 1]
                ELSE TrailingCtrl(b, n, ctrls, p - off)]

\* a live std::collections::HashMap<K, V> and its allocation
LiveTable(b, n, slot, ctrls) ==
    [map |-> [alive |-> TRUE, slot |-> slot,
              hashmap |-> HashMap(U(11), U(13),
                  RawTableInner(U(n - 1),
                                U(Addresses.table + TableCtrlOffset(b, n, slot)),
                                U(Capacity(n) - CountUsed(ctrls)),
                                U(CountFull(ctrls))))],
     heap |-> [base |-> Addresses.table, live |-> TRUE,
               bytes |-> TableBytes(b, n, slot, ctrls)]]

\* the empty singleton: no allocation, ctrl points at the static empty group
EmptySingleton(slot) ==
    [map |-> [alive |-> TRUE, slot |-> slot,
              hashmap |-> HashMap(U(11), U(13),
                  RawTableInner(U(0), U(Addresses.static), U(0), U(0)))],
     heap |-> [base |-> 0, live |-> FALSE, bytes |-> <<>>]]

Tables(b) ==
    {EmptySingleton(slot) : slot \in SlotTypes}
    \cup UNION { UNION { {LiveTable(b, n, slot, c) : c \in ControlArrays(n)} :
                         slot \in SlotTypes } : n \in BucketCounts }

\* ------------------------------------------------------------------ state

VARIABLES
    build,      \* the build the program was compiled as
    map,        \* the std HashMap being captured: [alive, slot, hashmap]
    heap,       \* its allocation: [base, live, bytes]
    frozen,     \* FrozenHashMap::construct's result: [kind, val]
    blob,       \* the Vec<u8> of store, as handed to load: [has, bytes]
    unfrozen,   \* FrozenHashMap::load's result: [kind, val, restored]
    iter,       \* the RawBucketIter in use: [kind, val, done]
    yielded,    \* the addresses its next() has returned
    last,       \* the last call and how it ended: [op, kind]
    calc        \* a call of calculate_layout_for: [tl, buckets, out]

vars == <<build, map, heap, frozen, blob, unfrozen, iter, yielded, last, calc>>

NoCalc == [tl |-> [size |-> U(0), ctrl_align |-> U(0)], buckets |-> U(0), out |-> NoLayout]

Idle ==
    /\ frozen = [kind |-> "None", val |-> ZeroFrozen]
    /\ blob = [has |-> FALSE, bytes |-> <<>>]
    /\ unfrozen = [kind |-> "None", val |-> ZeroFrozen, restored |-> FALSE]
    /\ iter = [kind |-> "None", val |-> NoIter, done |-> FALSE]
    /\ yielded = <<>>
    /\ last = [op |-> "start", kind |-> "Some"]
    /\ calc = NoCalc

Init ==
    /\ build \in Builds
    /\ \E t \in Tables(build) : map = t.map /\ heap = t.heap
    /\ Idle

\* a panic (or undefined behaviour) ends the program
Running == last.kind \notin {"panic", "undefined"}

\* the table layouts a caller of construct_with may pass for a table whose
\* slot type it does not know: strides that do not fit the address space
ForeignLayouts(b) ==
    {[size |-> s, ctrl_align |-> U(b.WIDTH)] : s \in {Pow2(61), Pow2(62)}}

\* let frozen = FrozenHashMap::construct(&map)
Construct ==
    /\ Running /\ map.alive /\ frozen.kind = "None"
    /\ LET r == construct(build, map, heap, Addresses.frozen)
       IN  /\ frozen' = IF r.kind = "Some" THEN [kind |-> "Some", val |-> r.val] ELSE frozen
           /\ last' = [op |-> "construct", kind |-> r.kind]
    /\ UNCHANGED <<build, map, heap, blob, unfrozen, iter, yielded, calc>>

\* let frozen = FrozenHashMap::construct_with(bytes of &map, table_layout)
ConstructWith ==
    /\ Running /\ map.alive /\ frozen.kind = "None"
    /\ \E tl \in ForeignLayouts(build) :
          LET r == construct_with(build, HashMapBytes(build, map.hashmap), tl,
                                  heap, Addresses.frozen)
          IN  /\ frozen' = IF r.kind = "Some" THEN [kind |-> "Some", val |-> r.val]
                           ELSE frozen
              /\ last' = [op |-> "construct_with", kind |-> r.kind]
    /\ UNCHANGED <<build, map, heap, blob, unfrozen, iter, yielded, calc>>

\* std::mem::drop(map): the table's allocation is freed
DropMap ==
    /\ Running /\ map.alive /\ frozen.kind = "Some" /\ iter.kind = "None"
    /\ map' = [map EXCEPT !.alive = FALSE]
    /\ heap' = [heap EXCEPT !.live = FALSE]
    /\ last' = [op |-> "drop", kind |-> "Some"]
    /\ UNCHANGED <<build, frozen, blob, unfrozen, iter, yielded, calc>>

\* let frozen: Vec<u8> = frozen.store()
Store ==
    /\ Running /\ frozen.kind = "Some" /\ ~map.alive /\ ~blob.has /\ iter.kind = "None"
    /\ blob' = [has |-> TRUE, bytes |-> store(build, frozen.val)]
    /\ last' = [op |-> "store", kind |-> "Some"]
    /\ UNCHANGED <<build, map, heap, frozen, unfrozen, iter, yielded, calc>>

\* bytes with the word at index w (from 0) overwritten
SetWord(b, bytes, w, u) ==
    SubSeq(bytes, 1, w * WordBytes) \o to_ne_bytes(b, u)
        \o SubSeq(bytes, (w + 1) * WordBytes + 1, Len(bytes))

\* the word index in the blob of a field of the two structs
BlobWord(b, f) ==
    IF f \in {"size", "ctrl_align"} THEN FieldIndex(b.layout_order, f)
    ELSE Len(b.layout_order) + FieldIndex(b.hashmap_order, f)

\* what a blob at rest may become before load sees it: one header field
\* overwritten
Tamperings ==
    { <<"items", UMAX>>, <<"items", U(0)>>, <<"bucket_mask", U(7)>>,
      <<"bucket_mask", U(2)>>, <<"bucket_mask", UMAX>>, <<"size", U(7)>>,
      <<"ctrl_align", U(0)>> }

Tamper ==
    /\ Running /\ blob.has /\ unfrozen.kind = "None" /\ last.op = "store"
    /\ \E t \in Tamperings :
          blob' = [blob EXCEPT !.bytes = SetWord(build, @, BlobWord(build, t[1]), t[2])]
    /\ last' = [op |-> "tamper", kind |-> "Some"]
    /\ UNCHANGED <<build, map, heap, frozen, unfrozen, iter, yielded, calc>>

\* let mut unfrozen = FrozenHashMap::load(&frozen)
Load ==
    /\ Running /\ blob.has /\ unfrozen.kind = "None" /\ last.op # "load"
    /\ LET r == load(build, blob.bytes, Addresses.unfrozen)
       IN  /\ unfrozen' = IF r.kind = "Some"
                          THEN [kind |-> "Some", val |-> r.val, restored |-> FALSE]
                          ELSE unfrozen
           /\ last' = [op |-> "load", kind |-> r.kind]
    /\ UNCHANGED <<build, map, heap, frozen, blob, iter, yielded, calc>>

\* unfrozen.reconstruct::<K, V>()
Reconstruct ==
    /\ Running /\ unfrozen.kind = "Some" /\ ~unfrozen.restored /\ iter.kind = "None"
    /\ last.op # "reconstruct"
    /\ LET r == reconstruct(build, unfrozen.val)
       IN  /\ unfrozen' = [unfrozen EXCEPT !.val = r.val, !.restored = (r.kind = "Some")]
           /\ last' = [op |-> "reconstruct", kind |-> r.kind]
    /\ UNCHANGED <<build, map, heap, frozen, blob, iter, yielded, calc>>

\* the snapshot an iterator borrows from
Owner(name) == IF name = "frozen" THEN frozen.val ELSE unfrozen.val

\* let raw_iter = snapshot.raw_iter(): of the capture before it is stored, or
\* of what load returned, restored or not
RawIter ==
    /\ Running /\ iter.kind = "None" /\ last.op # "raw_iter"
    /\ \E name \in {"frozen", "unfrozen"} :
          /\ IF name = "frozen" THEN frozen.kind = "Some" /\ ~blob.has
                                ELSE unfrozen.kind = "Some"
          /\ LET r == raw_iter(build, name, Owner(name))
             IN  /\ iter' = IF r.kind = "Some"
                            THEN [kind |-> "Some", val |-> r.val, done |-> FALSE]
                            ELSE iter
                 /\ last' = [op |-> "raw_iter", kind |-> r.kind]
    /\ UNCHANGED <<build, map, heap, frozen, blob, unfrozen, yielded, calc>>

\* raw_iter.next()
IterNext ==
    /\ Running /\ iter.kind = "Some"
    /\ LET r == next(build, iter.val, Owner(iter.val.owner).memory)
       IN  /\ iter' = [iter EXCEPT !.val = r.val, !.done = @ \/ r.kind = "None"]
           /\ yielded' = IF r.kind = "Some" THEN Append(yielded, r.addr) ELSE yielded
           /\ last' = [op |-> "next", kind |-> r.kind]
    /\ UNCHANGED <<build, map, heap, frozen, blob, unfrozen, calc>>

\* the program of the tests: capture, drop, store, load, restore, iterate
Next ==
    \/ Construct \/ ConstructWith \/ DropMap \/ Store \/ Load
    \/ Reconstruct \/ RawIter \/ IterNext

Spec == Init /\ [][Next]_vars

\* the same program fed a blob that was changed at rest
InitCorrupt ==
    /\ build \in Builds
    /\ \E t \in Tables(build) :
          /\ t.map.hashmap.table.bucket_mask = U(3)
          /\ map = t.map /\ heap = t.heap
    /\ Idle

NextCorrupt ==
    \/ Construct \/ DropMap \/ Store \/ Tamper \/ Load
    \/ Reconstruct \/ RawIter \/ IterNext

SpecCorrupt == InitCorrupt /\ [][NextCorrupt]_vars

\* ------------------------------------------------------------------ codec alone

\* longest memory of the snapshots handed to store
MaxMemory == 3

\* any snapshot can be stored: fields of a captured table, and fields no
\* table has
CodecSnapshots ==
    UNION { { FrozenHashMap([size |-> U(3), ctrl_align |-> U(16)],
                  HashMap(U(11), U(13),
                          RawTableInner(U(3), U(Addresses.table), U(1), U(2))),
                  Vec(Addresses.frozen, [i \in 1..n |-> (85 * i) % 256])),
              FrozenHashMap([size |-> UMAX, ctrl_align |-> U(0)],
                  HashMap(UMAX, U(0),
                          RawTableInner(UMAX, Pow2(63), U(0), Pow2(40))),
                  Vec(Addresses.frozen, [i \in 1..n |-> 255 - i])) } :
            n \in 0..MaxMemory }

InitCodec ==
    /\ build \in Builds
    /\ LET slot == CHOOSE t \in SlotTypes : t.size = 0
       IN  /\ map = [EmptySingleton(slot).map EXCEPT !.alive = FALSE]
           /\ heap = EmptySingleton(slot).heap
    /\ \E f \in CodecSnapshots : frozen = [kind |-> "Some", val |-> f]
    /\ blob = [has |-> FALSE, bytes |-> <<>>]
    /\ unfrozen = [kind |-> "None", val |-> ZeroFrozen, restored |-> FALSE]
    /\ iter = [kind |-> "None", val |-> NoIter, done |-> FALSE]
    /\ yielded = <<>>
    /\ last = [op |-> "start", kind |-> "Some"]
    /\ calc = NoCalc

\* the blob loses its last k bytes
Truncate ==
    /\ Running /\ blob.has /\ unfrozen.kind = "None"
    /\ last.op \in {"store", "set_prefix", "extend"}
    /\ \E k \in 1..Len(blob.bytes) :
          blob' = [blob EXCEPT !.bytes = SubSeq(@, 1, Len(@) - k)]
    /\ last' = [op |-> "truncate", kind |-> "Some"]
    /\ UNCHANGED <<build, map, heap, frozen, unfrozen, iter, yielded, calc>>

\* the word index of the length prefix in a blob
PrefixWord == Len(DeclaredLayoutOrder) + Len(DeclaredHashMapOrder)

\* length prefixes that disagree with the bytes that follow: one short, one
\* long, and the two that make cursor + length pass 2^64
PrefixValues(n) ==
    { OverflowingSub(U(n), U(1)).val, U(n + 1), UMAX,
      OverflowingSub(U(0), U((PrefixWord + 1) * WordBytes)).val }

\* the length prefix of the blob is overwritten
SetPrefix ==
    /\ Running /\ blob.has /\ unfrozen.kind = "None" /\ last.op = "store"
    /\ \E v \in PrefixValues(Len(frozen.val.memory.bytes)) :
          blob' = [blob EXCEPT !.bytes = SetWord(build, @, PrefixWord, v)]
    /\ last' = [op |-> "set_prefix", kind |-> "Some"]
    /\ UNCHANGED <<build, map, heap, frozen, unfrozen, iter, yielded, calc>>

\* a byte is appended to the blob
Extend ==
    /\ Running /\ blob.has /\ unfrozen.kind = "None" /\ last.op = "store"
    /\ blob' = [blob EXCEPT !.bytes = Append(@, 0)]
    /\ last' = [op |-> "extend", kind |-> "Some"]
    /\ UNCHANGED <<build, map, heap, frozen, unfrozen, iter, yielded, calc>>

NextCodec == Store \/ Truncate \/ SetPrefix \/ Extend \/ Load

SpecCodec == InitCodec /\ [][NextCodec]_vars

\* ------------------------------------------------------------------ layout alone

\* slot sizes, control alignments and bucket counts given to
\* calculate_layout_for
LayoutSizes ==
    { U(0), U(1), U(3), U(8), Pow2(32), Pow2(59), OverflowingSub(Pow2(60), U(1)).val,
      Pow2(60), Pow2(63), UMAX }
LayoutAligns(b) == { U(b.WIDTH), U(2 * b.WIDTH), Pow2(62) }
LayoutBuckets == { Pow2(k) : k \in 0..63 } \cup { U(0), U(3) }

InitLayout ==
    /\ build \in Builds
    /\ LET slot == CHOOSE t \in SlotTypes : t.size = 0
       IN  map = EmptySingleton(slot).map /\ heap = EmptySingleton(slot).heap
    /\ Idle

\* table_layout.calculate_layout_for(buckets)
CalculateLayoutFor ==
    /\ calc = NoCalc
    /\ \E size \in LayoutSizes, align \in LayoutAligns(build), n \in LayoutBuckets :
          LET tl == [size |-> size, ctrl_align |-> align]
              out == calculate_layout_for(build, tl, n)
          IN  /\ calc' = [tl |-> tl, buckets |-> n, out |-> out]
              /\ last' = [op |-> "calculate_layout_for", kind |-> out.kind]
    /\ UNCHANGED <<build, map, heap, frozen, blob, unfrozen, iter, yielded>>

NextLayout == CalculateLayoutFor

SpecLayout == InitLayout /\ [][NextLayout]_vars

\* ------------------------------------------------------------------ exact arithmetic

\* The span of a table in unbounded arithmetic: numerals are base-256 digit
\* strings of any length, least significant first.  N and the alignment are
\* powers of two, so the product is a shift and rounding up clears low bits.
DigitAt(x, i) == IF i <= Len(x) THEN x[i] ELSE 0

RECURSIVE AddNumFrom(_, _, _, _, _)
AddNumFrom(x, y, i, carry, acc) ==
    IF i > Len(x) /\ i > Len(y)
    THEN (IF carry = 0 THEN acc ELSE Append(acc, carry))
    ELSE LET t == DigitAt(x, i) + DigitAt(y, i) + carry
         IN  AddNumFrom(x, y, i + 1, t \div 256, Append(acc, t % 256))

AddNum(x, y) == AddNumFrom(x, y, 1, 0, <<>>)

RECURSIVE ScaleNumFrom(_, _, _, _, _)
ScaleNumFrom(x, c, i, carry, acc) ==
    IF i > Len(x) THEN (IF carry = 0 THEN acc ELSE Append(acc, carry))
    ELSE LET t == x[i] * c + carry
         IN  ScaleNumFrom(x, c, i + 1, t \div 256, Append(acc, t % 256))

\* x * 2^k
ShiftNum(x, k) ==
    [i \in 1..(k \div 8) |-> 0] \o ScaleNumFrom(x, 2 ^ (k % 8), 1, 0, <<>>)

\* x with its low a bits cleared
ClearLow(x, a) ==
    [i \in 1..Len(x) |->
        IF i <= a \div 8 THEN 0
        ELSE IF i = (a \div 8) + 1 THEN x[i] - (x[i] % (2 ^ (a % 8)))
        ELSE x[i]]

\* the least multiple of 2^a that is >= x
RoundUpNum(x, a) ==
    IF ClearLow(x, a) = x THEN x ELSE AddNum(ClearLow(x, a), ShiftNum(<<1>>, a))

\* the numeral fits the machine word
FitsWord(x) == \A i \in 1..Len(x) : i > WordBytes => x[i] = 0

\* the word of a numeral that fits
WordOf(x) == [i \in Digits |-> DigitAt(x, i)]

\* log2 of a power of two
Log2(u) == CHOOSE k \in 0..(8 * WordBytes - 1) : Pow2(k) = u

\* round_up(slot_stride * N, control_alignment) and the total span, exactly
ExactCtrlOffset(tl, n) == RoundUpNum(ShiftNum(tl.size, Log2(n)), Log2(tl.ctrl_align))
ExactSpan(b, tl, n) == AddNum(ExactCtrlOffset(tl, n), AddNum(n, U(b.WIDTH)))

\* ------------------------------------------------------------------ the captured table, as hashbrown sees it

\* the table T that was captured: its bucket count, control bytes and entries,
\* read from its allocation (kept after the drop for reference only)
TableBuckets == Val(map.hashmap.table.bucket_mask) + 1
TableOffset == TableCtrlOffset(build, TableBuckets, map.slot)
TableCtrl(i) == heap.bytes[TableOffset + i + 1]

RECURSIVE FullFrom(_)
FullFrom(i) ==
    IF i >= TableBuckets THEN <<>>
    ELSE IF IsFull(TableCtrl(i)) THEN <<i>> \o FullFrom(i + 1)
    ELSE FullFrom(i + 1)

\* the indexes of the occupied buckets of T, ascending
FullIndexes == IF heap.bytes = <<>> THEN <<>> ELSE FullFrom(0)

\* the bytes of the entry in bucket i of T
TableEntry(i) ==
    SubSeq(heap.bytes, TableOffset - (i + 1) * map.slot.size + 1,
           TableOffset - i * map.slot.size)

\* the entries of T, by ascending bucket index
TableEntries == [k \in 1..Len(FullIndexes) |-> TableEntry(FullIndexes[k])]

\* where raw iteration finds them, relative to the start of the buffer
TableSlotOffsets ==
    [k \in 1..Len(FullIndexes) |-> TableOffset - (FullIndexes[k] + 1) * map.slot.size]

\* the byte at an address: of a live object, or -1 for an address in none
InVec(v, a) == v.ptr <= a /\ a < v.ptr + Len(v.bytes)
MemoryAt(a) ==
    IF unfrozen.kind = "Some" /\ InVec(unfrozen.val.memory, a)
        THEN Deref(unfrozen.val.memory, a)
    ELSE IF frozen.kind = "Some" /\ InVec(frozen.val.memory, a)
        THEN Deref(frozen.val.memory, a)
    ELSE IF heap.live /\ heap.base <= a /\ a < heap.base + Len(heap.bytes)
        THEN heap.bytes[a - heap.base + 1]
    ELSE -1

\* the slot of `stride` bytes at an address
SlotAt(a, stride) == [j \in 1..stride |-> MemoryAt(a + j - 1)]

\* what the slots at the yielded addresses hold
YieldedEntries == [k \in 1..Len(yielded) |-> SlotAt(yielded[k], map.slot.size)]

\* what a table view gives when it is iterated as a std HashMap: the slots
\* of the full control bytes among the bucket_mask + 1 at its ctrl pointer
RECURSIVE ViewFrom(_, _, _, _)
ViewFrom(ctrl, n, stride, i) ==
    IF i >= n THEN <<>>
    ELSE IF MemoryAt(ctrl + i) = -1 THEN <<<<-1>>>>
    ELSE IF IsFull(MemoryAt(ctrl + i))
         THEN <<SlotAt(ctrl - (i + 1) * stride, stride)>> \o ViewFrom(ctrl, n, stride, i + 1)
    ELSE ViewFrom(ctrl, n, stride, i + 1)

ViewEntries(view) ==
    IF ~IsSmall(view.hashmap.table.ctrl) THEN <<<<-1>>>>
    ELSE ViewFrom(Val(view.hashmap.table.ctrl), TableBuckets, map.slot.size, 0)

\* the capture was made by construct, with the layout of T's slot type
TypedCapture ==
    /\ frozen.kind = "Some"
    /\ frozen.val.table_layout = TableLayoutNew(build, map.slot.size, map.slot.align)

\* the blob is what store returned
Untampered == blob.has /\ blob.bytes = store(build, frozen.val)

\* the iterator in use runs over a snapshot that construct produced or that
\* reconstruct accepted
IterOverValid ==
    /\ iter.kind = "Some"
    /\ iter.val.owner = "frozen" \/ unfrozen.restored

\* ------------------------------------------------------------------ claims

\* C1: round trip.  For a table T captured by construct, stored, loaded and
\* restored: reconstruct succeeds exactly when T has storage and then points
\* ctrl into the snapshot's own memory; the view iterated through ctrl, and
\* the drained raw iterator, give exactly the entries of T, each once, in
\* bucket order, with T already dropped.
C1_RoundTrip ==
    (TypedCapture /\ Untampered) =>
        /\ last.op = "reconstruct" =>
              last.kind = (IF is_empty_singleton(map.hashmap.table) THEN "None" ELSE "Some")
        /\ unfrozen.restored =>
              /\ ~map.alive
              /\ unfrozen.val.hashmap.table.ctrl
                    = U(unfrozen.val.memory.ptr + TableOffset)
              /\ ViewEntries(unfrozen.val) = TableEntries
        /\ (unfrozen.restored /\ iter.kind = "Some" /\ iter.done) =>
              YieldedEntries = TableEntries

C1_Witness ==
    /\ TypedCapture /\ Untampered /\ unfrozen.restored /\ ~map.alive
    /\ iter.kind = "Some" /\ iter.done /\ Len(yielded) = 2
    /\ map.slot.size = 3
    /\ YieldedEntries[1] # YieldedEntries[2]

\* C2: a blob of store with its last k >= 1 bytes removed is refused by load.
IsTruncation ==
    /\ blob.has
    /\ Len(blob.bytes) < Len(store(build, frozen.val))
    /\ blob.bytes = SubSeq(store(build, frozen.val), 1, Len(blob.bytes))

C2_TruncationRefused == (last.op = "load" /\ IsTruncation) => last.kind = "None"

C2_Witness ==
    /\ last.op = "load" /\ IsTruncation /\ last.kind = "None"
    /\ Len(blob.bytes) = Len(store(build, frozen.val)) - 1
    /\ frozen.val.memory.bytes # <<>>

\* C3: a drained iterator over a snapshot that construct produced or that
\* reconstruct accepted has yielded exactly item_count addresses.
C3_YieldsItemCount ==
    (IterOverValid /\ iter.done) =>
        U(Len(yielded)) = Owner(iter.val.owner).hashmap.table.items

\* C4: every address yielded over such a snapshot lies inside its buffer and
\* belongs to a control index below bucket_mask + 1.
C4_YieldsInBounds ==
    IterOverValid =>
        LET self == Owner(iter.val.owner)
            stride == Val(self.table_layout.size)
        IN  \A k \in 1..Len(yielded) :
               /\ self.memory.ptr <= yielded[k]
               /\ yielded[k] + stride <= self.memory.ptr + Len(self.memory.bytes)
               /\ stride > 0 =>
                     ~Lt(buckets(build, self.hashmap.table).val,
                         U((iter.val.base - yielded[k]) \div stride))

\* C5: raw iteration over the capture of T, or over load(store(capture of T))
\* with or without reconstruct, yields, in ascending control index, the
\* address control_base - (i + 1) * stride of each full control byte i and of
\* no other, at the same offsets from the start of either buffer.
C5_IterationOrder ==
    (TypedCapture /\ iter.kind = "Some" /\ (iter.val.owner = "unfrozen" => Untampered)) =>
        /\ Len(yielded) <= Len(TableSlotOffsets)
        /\ \A k \in 1..Len(yielded) :
              /\ yielded[k] - Owner(iter.val.owner).memory.ptr = TableSlotOffsets[k]
              /\ yielded[k] = iter.val.base - (FullIndexes[k] + 1) * map.slot.size
        /\ iter.done => Len(yielded) = Len(TableSlotOffsets)

C5_Witness ==
    /\ TypedCapture /\ Untampered /\ iter.kind = "Some" /\ iter.done
    /\ iter.val.owner = "unfrozen" /\ ~unfrozen.restored
    /\ Len(yielded) = 2 /\ yielded[1] > yielded[2]
    /\ FullIndexes[1] > 0 /\ FullIndexes[2] > FullIndexes[1] + 1

\* C6: reconstruct of a snapshot whose memory length differs from the
\* recomputed span returns a failure value and leaves ctrl as it was.
SizeMismatch(self) ==
    /\ self.memory.bytes # <<>>
    /\ reallocation(build, self.hashmap.table, self.table_layout).kind = "Some"
    /\ reallocation(build, self.hashmap.table, self.table_layout).size
          # U(Len(self.memory.bytes))

C6_MismatchIsValue ==
    (last.op = "reconstruct" /\ SizeMismatch(unfrozen.val)) =>
        /\ last.kind = "None"
        /\ unfrozen.val.hashmap.table.ctrl = WordAt(build, blob.bytes, BlobWord(build, "ctrl"))

\* C7: construct_with returns no snapshot when the span of a table with
\* bucket_mask # 0 does not fit the machine word.
C7_OverflowIsObserved ==
    ~ /\ last.op \in {"construct", "construct_with"}
      /\ frozen.kind = "Some"
      /\ ~is_empty_singleton(frozen.val.hashmap.table)
      /\ ~FitsWord(ExactSpan(build, frozen.val.table_layout,
                             buckets(build, frozen.val.hashmap.table).val))

C9_ExactOrNone ==
    (/\ last.op = "calculate_layout_for"
     /\ IsPowerOfTwo(calc.buckets) /\ IsPowerOfTwo(calc.tl.ctrl_align)
     /\ ~Lt(calc.tl.ctrl_align, U(build.WIDTH))) =>
        IF FitsWord(ExactSpan(build, calc.tl, calc.buckets))
        THEN calc.out = SomeLayout(WordOf(ExactSpan(build, calc.tl, calc.buckets)),
                                   calc.tl.ctrl_align,
                                   WordOf(ExactCtrlOffset(calc.tl, calc.buckets)))
        ELSE calc.out = NoLayout

\* C10: load returns a snapshot exactly when the blob holds the whole header
\* and the length prefix plus the header length equals the blob's length; the
\* snapshot then holds the blob's fields and its last `prefix` bytes; in
\* every other case load returns None, and it never panics.
HeaderLen == (PrefixWord + 1) * WordBytes

Accepts(bytes) ==
    /\ Len(bytes) >= HeaderLen
    /\ LET prefix == WordAt(build, bytes, PrefixWord)
       IN  IsSmall(prefix) /\ Val(prefix) = Len(bytes) - HeaderLen

C10_LoadIsTotal ==
    last.op = "load" =>
        /\ last.kind # "panic"
        /\ last.kind = "Some" <=> Accepts(blob.bytes)
        /\ last.kind = "Some" =>
              /\ unfrozen.val.memory.bytes
                    = SubSeq(blob.bytes, HeaderLen + 1, Len(blob.bytes))
              /\ store(build, unfrozen.val) = blob.bytes
====
